---- MODULE Spec2Model ----
(***************************************************************************)
(* Model of the document converter (run.js + converters.js).               *)
(*                                                                         *)
(* Text is a sequence of characters and a file is a sequence of bytes.     *)
(* An ASCII byte or character is a one-character string; ESC (0x1B) is     *)
(* "x1B"; a byte >= 0x80 is named by its hex value ("xE3"); a non-ASCII    *)
(* character is named by its code point ("U+3042").                        *)
(***************************************************************************)
EXTENDS Integers, Sequences, FiniteSets, TLC

VARIABLES argFileName, files, prev, runs, exitCode, mode, inputPath, fix, md

vars ==
    <<argFileName, files, prev, runs, exitCode, mode, inputPath, fix, md>>

(***************************************************************************)
(* Generic helpers on character sequences (String.prototype / RegExp).     *)
(***************************************************************************)
UpperLetters ==
    {"A", "B", "C", "D", "E", "F", "G", "H", "I", "J", "K", "L", "M", "N", "O", "P", "Q", "R", "S", "T", "U", "V", "W", "X", "Y", "Z"}

LowerMap ==
    [A |-> "a", B |-> "b", C |-> "c", D |-> "d", E |-> "e", F |-> "f", G |-> "g", H |-> "h", I |-> "i", J |-> "j", K |-> "k", L |-> "l", M |-> "m", N |-> "n", O |-> "o", P |-> "p", Q |-> "q", R |-> "r", S |-> "s", T |-> "t", U |-> "u", V |-> "v", W |-> "w", X |-> "x", Y |-> "y", Z |-> "z"]

\* String.prototype.toLowerCase on one character (the /i flag of a regex)
Lower(c) ==
    IF c \in UpperLetters THEN LowerMap[c] ELSE c

\* the literal p occurs in s at position i
MatchAt(s, i, p) ==
    /\ i >= 1
    /\ i + Len(p) - 1 <= Len(s)
    /\ \A k \in 1..Len(p) : s[i + k - 1] = p[k]

\* the literal p (given in lower case) occurs in s at position i, ignoring case
MatchAtCI(s, i, p) ==
    /\ i >= 1
    /\ i + Len(p) - 1 <= Len(s)
    /\ \A k \in 1..Len(p) : s[i + k - 1] = p[k] \/ Lower(s[i + k - 1]) = p[k]

\* String.prototype.includes / Buffer.prototype.includes
Includes(s, p) ==
    \E i \in 1..(Len(s) - Len(p) + 1) : s[i] = p[1] /\ MatchAt(s, i, p)

\* smallest element of a non-empty set of integers
Min(S) ==
    CHOOSE x \in S : \A y \in S : x <= y

\* position of the first ">" at or after from, 0 when there is none
FirstGt(s, from) ==
    LET G == {g \in from..Len(s) : s[g] = ">"}
    IN  IF G = {} THEN 0 ELSE Min(G)

\* s with s[i..j] replaced by r
Splice(s, i, j, r) ==
    SubSeq(s, 1, i - 1) \o r \o SubSeq(s, j + 1, Len(s))

\* number of (non-overlapping) occurrences of the lower-case literal p in s
RECURSIVE CountFromCI(_, _, _)
CountFromCI(s, p, i) ==
    IF i + Len(p) - 1 > Len(s) THEN 0
    ELSE IF MatchAtCI(s, i, p) THEN 1 + CountFromCI(s, p, i + Len(p))
    ELSE CountFromCI(s, p, i + 1)

CountCI(s, p) ==
    CountFromCI(s, p, 1)

(***************************************************************************)
(* Bytes, characters and the encodings.                                    *)
(***************************************************************************)
ESC ==
    "x1B"

HighBytes ==
    {"x81", "x82", "xA0", "xA2", "xA4", "xBD", "xBF", "xE3", "xEF"}

\* U+3042 HIRAGANA A, U+FFFD REPLACEMENT CHARACTER, U+FF64 (a character that
\* mis-decoded bytes turn into)
Hiragana ==
    "U+3042"

Replacement ==
    "U+FFFD"

Mojibake ==
    "U+FF64"

Utf8Bytes ==
    (Hiragana :> <<"xE3", "x81", "x82">>) @@
    (Replacement :> <<"xEF", "xBF", "xBD">>) @@
    (Mojibake :> <<"xEF", "xBD", "xA4">>)

\* the characters outside ASCII
WideChars ==
    {Hiragana, Replacement, Mojibake}

SjisA ==
    <<"x82", "xA0">>

EucA ==
    <<"xA4", "xA2">>

\* the two JIS X 0208 bytes of U+3042 between ESC $ B and ESC ( B
JisA ==
    <<"$", "\"">>

\* fs.writeFile(path, content, "utf8"): the UTF-8 bytes of a text
RECURSIVE Utf8EncodeFrom(_, _)
Utf8EncodeFrom(text, i) ==
    LET N == {k \in i..Len(text) : text[k] \in WideChars}
    IN  IF N = {} THEN SubSeq(text, i, Len(text))
        ELSE LET j == Min(N)
             IN  SubSeq(text, i, j - 1) \o Utf8Bytes[text[j]] \o Utf8EncodeFrom(text, j + 1)

\* a write that keeps one byte per character, as fs.writeFile(path, content,
\* "latin1") would
Latin1Encode(text) ==
    [i \in 1..Len(text) |-> IF text[i] \in WideChars THEN "xA0" ELSE text[i]]

Utf8Encode(text) ==
    Utf8EncodeFrom(text, 1)

\* buffer.toString("utf8"): a well-formed sequence decodes to its character,
\* any other byte >= 0x80 to U+FFFD.  (Within the byte alphabet of this model
\* the well-formed multi-byte sequences are exactly those of Utf8Bytes.)
RECURSIVE Utf8DecodeFrom(_, _)
Utf8DecodeFrom(bytes, i) ==
    LET N == {k \in i..Len(bytes) : bytes[k] \in HighBytes}
    IN  IF N = {} THEN SubSeq(bytes, i, Len(bytes))
        ELSE LET j == Min(N)
                 C == {ch \in WideChars : MatchAt(bytes, j, Utf8Bytes[ch])}
             IN  SubSeq(bytes, i, j - 1) \o
                 (IF C # {}
                  THEN <<CHOOSE ch \in C : TRUE>> \o Utf8DecodeFrom(bytes, j + 3)
                  ELSE <<Replacement>> \o Utf8DecodeFrom(bytes, j + 1))

Utf8Decode(bytes) ==
    Utf8DecodeFrom(bytes, 1)

\* Encoding.convert from a one- or two-byte 8-bit encoding whose only
\* double-byte character of the alphabet is pair: ASCII is kept, the pair
\* becomes U+3042 and every other byte >= 0x80 is mis-decoded
RECURSIVE ConvertPairsFrom(_, _, _)
ConvertPairsFrom(bytes, pair, i) ==
    LET N == {k \in i..Len(bytes) : bytes[k] \in HighBytes}
    IN  IF N = {} THEN SubSeq(bytes, i, Len(bytes))
        ELSE LET j == Min(N)
             IN  SubSeq(bytes, i, j - 1) \o
                 (IF pair # <<>> /\ MatchAt(bytes, j, pair)
                  THEN <<Hiragana>> \o ConvertPairsFrom(bytes, pair, j + 2)
                  ELSE <<Mojibake>> \o ConvertPairsFrom(bytes, pair, j + 1))

\* Encoding.convert from ISO-2022-JP: an ESC starts a three-byte escape
\* sequence; ESC $ B switches to double-byte mode, any other sequence back to
\* ASCII; in double-byte mode two bytes make one character
RECURSIVE ConvertJisFrom(_, _, _)
ConvertJisFrom(bytes, i, dbl) ==
    IF i > Len(bytes) THEN <<>>
    ELSE IF bytes[i] = ESC
         THEN ConvertJisFrom(bytes, i + 3, MatchAt(bytes, i + 1, <<"$", "B">>))
    ELSE IF dbl
         THEN <<IF MatchAt(bytes, i, JisA) THEN Hiragana ELSE Mojibake>>
              \o ConvertJisFrom(bytes, i + 2, dbl)
    ELSE <<IF bytes[i] \in HighBytes THEN Mojibake ELSE bytes[i]>>
         \o ConvertJisFrom(bytes, i + 1, dbl)

\* Encoding.convert(bytes, {to: "UNICODE", from: enc, type: "string"})
Convert(bytes, from) ==
    CASE from = "SJIS" -> ConvertPairsFrom(bytes, SjisA, 1)
      [] from = "EUCJP" -> ConvertPairsFrom(bytes, EucA, 1)
      [] from = "ISO-2022-JP" -> ConvertJisFrom(bytes, 1, FALSE)
      [] OTHER -> ConvertPairsFrom(bytes, <<>>, 1)

\* the labels Encoding.detect can return for a file: 'UTF8' | 'SJIS' |
\* 'EUCJP' and others ('ASCII' for 7-bit content), or a falsy value ("")
\* when nothing matches
DetectLabels ==
    {"UTF8", "SJIS", "EUCJP", "ASCII", ""}

\* String.prototype.toUpperCase on an encoding label
ToUpperCase(label) ==
    CASE label = "utf8" -> "UTF8"
      [] label = "sjis" -> "SJIS"
      [] OTHER -> label

(***************************************************************************)
(* fixHtmlEncodingIfNeeded                                                 *)
(***************************************************************************)
LtMeta ==
    <<"<", "m", "e", "t", "a">>

Charset ==
    <<"c", "h", "a", "r", "s", "e", "t">>

CharsetEq ==
    <<"c", "h", "a", "r", "s", "e", "t", "=">>

Utf8Name ==
    <<"u", "t", "f", "-", "8">>

LtHead ==
    <<"<", "h", "e", "a", "d">>

CloseBody ==
    <<"<", "/", "b", "o", "d", "y", ">">>

CloseHtml ==
    <<"<", "/", "h", "t", "m", "l", ">">>

CanonicalMeta ==
    <<"<", "m", "e", "t", "a", " ", "c", "h", "a", "r", "s", "e", "t", "=", "\"", "U", "T", "F", "-", "8", "\"", ">">>

HeadInsert ==
    <<"\n", " ", " ">> \o CanonicalMeta

MinimalHead ==
    <<"<", "h", "e", "a", "d", ">">> \o CanonicalMeta \o <<"<", "/", "h", "e", "a", "d", ">", "\n">>

AppendBody ==
    <<"\n">> \o CloseBody

AppendHtml ==
    <<"\n">> \o CloseHtml

\* an escape check that forgets the ESC ( B sequence
hasEscDollarOnly(buffer) ==
    /\ \E i \in 1..Len(buffer) : buffer[i] = ESC
    /\ Includes(buffer, <<"$", "B">>)

\* buffer.includes(0x1b) && (bin.includes("$B") || bin.includes("(B"))
hasEsc(buffer) ==
    /\ \E i \in 1..Len(buffer) : buffer[i] = ESC
    /\ (Includes(buffer, <<"$", "B">>) \/ Includes(buffer, <<"(", "B">>))

\* the match of /<meta[^>]*charset[^>]*>/i that starts at i ends at the first
\* ">" after "<meta", and "charset" lies before it; 0 when there is no match
MetaEndAt(s, i) ==
    IF ~MatchAtCI(s, i, LtMeta) THEN 0
    ELSE LET g == FirstGt(s, i + 5)
         IN  IF g # 0 /\ \E c \in (i + 5)..(g - 7) : MatchAtCI(s, c, Charset)
             THEN g ELSE 0

\* the positions of "<", where every pattern below starts
TagStarts(s) ==
    {i \in 1..Len(s) : s[i] = "<"}

\* start positions of the matches of /<meta[^>]*charset[^>]*>/i
MetaStarts(s) ==
    {i \in TagStarts(s) : MetaEndAt(s, i) # 0}

\* /<meta[^>]*charset[^>]*>/i.test(content)
hasMeta(content) ==
    MetaStarts(content) # {}

\* /<meta[^>]*charset=["']?utf-8["']?/i matches at i
Utf8MetaAt(s, i) ==
    /\ MatchAtCI(s, i, LtMeta)
    /\ \E c \in (i + 5)..Len(s) :
          /\ MatchAtCI(s, c, CharsetEq)
          /\ \A k \in (i + 5)..(c - 1) : s[k] # ">"
          /\ \/ MatchAtCI(s, c + 8, Utf8Name)
             \/ /\ c + 8 <= Len(s)
                /\ s[c + 8] \in {"\"", "'"}
                /\ MatchAtCI(s, c + 9, Utf8Name)

\* /<meta[^>]*charset=["']?utf-8["']?/i.test(content)
isUtf8Meta(content) ==
    \E i \in TagStarts(content) : Utf8MetaAt(content, i)

\* start positions of the matches of /<head[^>]*>/i
HeadStarts(s) ==
    {i \in TagStarts(s) : MatchAtCI(s, i, LtHead) /\ FirstGt(s, i + 5) # 0}

\* content.replace(/<meta[^>]*charset[^>]*>/i, '<meta charset="UTF-8">')
ReplaceMeta(content) ==
    LET i == Min(MetaStarts(content))
    IN  Splice(content, i, MetaEndAt(content, i), CanonicalMeta)

\* content.replace(/<head[^>]*>/i, (m) => `${m}\n  <meta charset="UTF-8">`)
InsertAfterHead(content) ==
    LET i == Min(HeadStarts(content))
        g == FirstGt(content, i + 5)
    IN  Splice(content, g + 1, g, HeadInsert)

\* step 4 when the declaration is missing or not UTF-8: replace the first
\* declaration, else insert after the head tag, else prepend a head section
UnifyMeta(content) ==
    IF hasMeta(content) THEN ReplaceMeta(content)
    ELSE IF HeadStarts(content) # {} THEN InsertAfterHead(content)
    ELSE MinimalHead \o content

\* the test without its i flag
hasCloseBodyCaseSensitive(content) ==
    Includes(content, CloseBody)

\* /<\/body>/i.test(content)
hasCloseBody(content) ==
    \E i \in TagStarts(content) : MatchAtCI(content, i, CloseBody)

\* /<\/html>/i.test(content)
hasCloseHtml(content) ==
    \E i \in TagStarts(content) : MatchAtCI(content, i, CloseHtml)

\* the encoding the file is read with: the forced one, else the detected one,
\* overridden by the JIS escape check
Classify(buffer, forceEnc, detected) ==
    IF forceEnc = "" /\ hasEsc(buffer) THEN "ISO-2022-JP"
    ELSE IF forceEnc # "" THEN forceEnc ELSE detected

\* fixHtmlEncodingIfNeeded(filePath, forceEnc) on a file holding buffer, when
\* Encoding.detect answers detected.  Returns {needFix, enc} together with
\* the text after step 3 (decoded), the final text (content) and the bytes
\* the file holds afterwards (stored).
fixHtmlEncodingIfNeeded(buffer, forceEnc, detected) ==
    LET enc == Classify(buffer, forceEnc, detected)
        transcode == enc # "" /\ ToUpperCase(enc) # "UTF8"
        decoded == IF transcode THEN Convert(buffer, enc) ELSE Utf8Decode(buffer)
        metaOk == hasMeta(decoded) /\ isUtf8Meta(decoded)
        c4 == IF metaOk THEN decoded ELSE UnifyMeta(decoded)
        bodyOk == hasCloseBody(c4)
        c5 == IF bodyOk THEN c4 ELSE c4 \o AppendBody
        htmlOk == hasCloseHtml(c5)
        c6 == IF htmlOk THEN c5 ELSE c5 \o AppendHtml
        needFix == transcode \/ ~metaOk \/ ~bodyOk \/ ~htmlOk
    IN  [needFix |-> needFix, enc |-> enc, detected |-> detected,
         decoded |-> decoded, repaired |-> c4, content |-> c6, called |-> TRUE,
         stored |-> IF needFix THEN Utf8Encode(c6) ELSE buffer]

(***************************************************************************)
(* preprocessMarkdown                                                      *)
(***************************************************************************)
\* \s of a regex
Ws ==
    {" ", "\t", "\n", "\r"}

LineTerm ==
    {"\n", "\r"}

Dashes ==
    <<"-", "-", "-">>

MarpKey ==
    <<"m", "a", "r", "p", ":">>

TrueWord ==
    <<"t", "r", "u", "e">>

Max(S) ==
    CHOOSE x \in S : \A y \in S : x >= y

\* ^ with the m flag: the start of the input or just after a line terminator
LineStart(s, i) ==
    i = 1 \/ (i >= 2 /\ i <= Len(s) + 1 /\ s[i - 1] \in LineTerm)

\* last position of the maximal run of characters of set C that starts at
\* from (from - 1 when the run is empty)
RunEnd(s, from, C) ==
    LET N == {k \in from..Len(s) : s[k] \notin C}
    IN  IF N = {} THEN Len(s) ELSE Min(N) - 1

\* out.replace(/^---[\s\S]*?---\s*/m, ""): the first "---" at a line start
\* that a later "---" follows, up to the nearest later "---" and the white
\* space after it
StripFrontMatter(s) ==
    LET Opens == {i \in 1..Len(s) :
                     /\ LineStart(s, i)
                     /\ MatchAt(s, i, Dashes)
                     /\ \E j \in (i + 3)..Len(s) : MatchAt(s, j, Dashes)}
    IN  IF Opens = {} THEN s
        ELSE LET i == Min(Opens)
                 j == Min({k \in (i + 3)..Len(s) : MatchAt(s, k, Dashes)})
             IN  Splice(s, i, RunEnd(s, j + 3, Ws), <<>>)

\* last position of the match of /^\s*marp:\s*true\s*$/mi that starts at i,
\* 0 when there is none
MarpEndAt(s, i) ==
    IF ~LineStart(s, i) THEN 0
    ELSE LET a == RunEnd(s, i, Ws) + 1
         IN  IF ~MatchAtCI(s, a, MarpKey) THEN 0
             ELSE LET b == RunEnd(s, a + 5, Ws) + 1
                  IN  IF ~MatchAtCI(s, b, TrueWord) THEN 0
                      ELSE LET k == RunEnd(s, b + 4, Ws)
                               NL == {p \in (b + 4)..k : s[p] \in LineTerm}
                           IN  IF k = Len(s) THEN k
                               ELSE IF NL = {} THEN 0
                               ELSE Max(NL) - 1

\* out.replace(/^\s*marp:\s*true\s*$/gmi, "")
RECURSIVE RemoveMarpFrom(_, _)
RemoveMarpFrom(s, i) ==
    IF i > Len(s) THEN <<>>
    ELSE LET e == MarpEndAt(s, i)
         IN  IF e # 0 THEN RemoveMarpFrom(s, e + 1)
             ELSE <<s[i]>> \o RemoveMarpFrom(s, i + 1)

RemoveMarp(s) ==
    RemoveMarpFrom(s, 1)

\* the match of /^(#{1,6})\s+#+\s+/m that starts at i: [last |-> its last
\* position, hashes |-> the length of group 1]; last = 0 when there is none
HeadingAt(s, i) ==
    LET h == RunEnd(s, i, {"#"})
        w == RunEnd(s, h + 1, Ws)
        g == RunEnd(s, w + 1, {"#"})
        e == RunEnd(s, g + 1, Ws)
    IN  IF /\ LineStart(s, i)
           /\ h >= i /\ h - i + 1 <= 6
           /\ w > h /\ g > w /\ e > g
        THEN [last |-> e, hashes |-> h - i + 1]
        ELSE [last |-> 0, hashes |-> 0]

\* out.replace(/^(#{1,6})\s+#+\s+/gm, "$1 ")
RECURSIVE CollapseHeadingsFrom(_, _)
CollapseHeadingsFrom(s, i) ==
    IF i > Len(s) THEN <<>>
    ELSE LET m == HeadingAt(s, i)
         IN  IF m.last # 0
             THEN SubSeq(s, i, i + m.hashes - 1) \o <<" ">>
                  \o CollapseHeadingsFrom(s, m.last + 1)
             ELSE <<s[i]>> \o CollapseHeadingsFrom(s, i + 1)

CollapseHeadings(s) ==
    CollapseHeadingsFrom(s, 1)

\* out.replace(/^\s+/, "")
TrimStart(s) ==
    SubSeq(s, RunEnd(s, 1, Ws) + 1, Len(s))

preprocessMarkdown(text) ==
    TrimStart(CollapseHeadings(RemoveMarp(StripFrontMatter(text))))

(***************************************************************************)
(* Paths (path.parse, path.resolve) and the converters.                    *)
(***************************************************************************)
DataDir ==
    <<"d", "a", "t", "a">>

ExtMd ==
    <<".", "m", "d">>

ExtDocx ==
    <<".", "d", "o", "c", "x">>

ExtHtml ==
    <<".", "h", "t", "m", "l">>

ExtHtm ==
    <<".", "h", "t", "m">>

ExtPdf ==
    <<".", "p", "d", "f">>

\* path.parse(p).base: what follows the last "/"
ParseBase(p) ==
    LET Sl == {i \in 1..Len(p) : p[i] = "/"}
    IN  IF Sl = {} THEN p ELSE SubSeq(p, Max(Sl) + 1, Len(p))

\* path.parse(p).ext: from the last "." of the base, unless the base has no
\* "." or only a leading one
ParseExt(p) ==
    LET base == ParseBase(p)
        Dots == {i \in 1..Len(base) : base[i] = "."}
    IN  IF Dots = {} \/ Max(Dots) = 1 THEN <<>>
        ELSE SubSeq(base, Max(Dots), Len(base))

\* path.parse(p).name: the base without its ext
ParseName(p) ==
    LET base == ParseBase(p)
    IN  SubSeq(base, 1, Len(base) - Len(ParseExt(p)))

\* String.prototype.toLowerCase
ToLowerCase(s) ==
    [i \in 1..Len(s) |-> Lower(s[i])]

\* path.resolve(dir, name) for a relative name
Resolve(dir, name) ==
    dir \o <<"/">> \o name

TemplateHead ==
    <<"<", "!", "D", "O", "C", "T", "Y", "P", "E", " ", "h", "t", "m", "l", ">", "\n", "<", "h", "t", "m", "l", " ", "l", "a", "n", "g", "=", "\"", "j", "a", "\"", ">", "\n", "<", "h", "e", "a", "d", ">", "\n", "<", "m", "e", "t", "a", " ", "c", "h", "a", "r", "s", "e", "t", "=", "\"", "U", "T", "F", "-", "8", "\"", " ", "/", ">", "\n", "<", "t", "i", "t", "l", "e", ">">>

TemplateMid ==
    <<"<", "/", "t", "i", "t", "l", "e", ">", "\n", "<", "/", "h", "e", "a", "d", ">", "\n", "<", "b", "o", "d", "y", ">", "\n">>

TemplateTail ==
    <<"\n", "<", "/", "b", "o", "d", "y", ">", "\n", "<", "/", "h", "t", "m", "l", ">", "\n">>

\* the fullHtml template of mdToHtml and wordToHtml (without its viewport
\* and style elements)
FullHtml(baseName, bodyHtml) ==
    TemplateHead \o baseName \o TemplateMid \o bodyHtml \o TemplateTail

\* the renderings of the external libraries, kept as opaque wrappers
Marked(text) ==
    <<"marked(">> \o text \o <<")">>

Mammoth(docx) ==
    <<"mammoth(">> \o docx \o <<")">>

PagePdf(html) ==
    <<"pdf(">> \o html \o <<")">>

NoFix ==
    [needFix |-> FALSE, enc |-> "", detected |-> "", decoded |-> <<>>,
     repaired |-> <<>>, content |-> <<>>, called |-> FALSE, stored |-> <<>>]

NoMd ==
    [src |-> <<>>, out |-> <<>>, called |-> FALSE]

\* f with path p set to content c
WriteFile(f, p, c) ==
    [q \in DOMAIN f \cup {p} |-> IF q = p THEN c ELSE f[q]]

(***************************************************************************)
(* run.js: one invocation of `node run.js <argFileName>` is one step.      *)
(***************************************************************************)
\* how many times the command is run in a behaviour
MaxRuns ==
    2

\* if (!argFileName) { ...; process.exit(1); }
MainNoArg ==
    /\ runs < MaxRuns
    /\ argFileName = <<>>
    /\ runs' = runs + 1
    /\ prev' = files
    /\ exitCode' = 1
    /\ mode' = "none"
    /\ inputPath' = <<>>
    /\ fix' = NoFix
    /\ md' = NoMd
    /\ UNCHANGED <<argFileName, files>>

\* ext === ".md": mdToHtml(baseName, dataDir, dataDir)
MainMd ==
    /\ runs < MaxRuns
    /\ argFileName # <<>>
    /\ ToLowerCase(ParseExt(argFileName)) = ExtMd
    /\ LET baseName == ParseName(argFileName)
           inp == Resolve(DataDir, baseName \o ExtMd)
           out == Resolve(DataDir, baseName \o ExtHtml)
       IN  /\ inputPath' = inp
           /\ IF inp \notin DOMAIN files
              THEN /\ exitCode' = 1
                   /\ md' = NoMd
                   /\ files' = files
              ELSE LET src == Utf8Decode(files[inp])
                       text == preprocessMarkdown(src)
                   IN  /\ exitCode' = 0
                       /\ md' = [src |-> src, out |-> text, called |-> TRUE]
                       /\ files' = WriteFile(files, out,
                                       Utf8Encode(FullHtml(baseName, Marked(text))))
    /\ runs' = runs + 1
    /\ prev' = files
    /\ mode' = "mdToHtml"
    /\ fix' = NoFix
    /\ UNCHANGED argFileName

\* ext === ".docx": wordToHtml(baseName, dataDir, dataDir)
MainDocx ==
    /\ runs < MaxRuns
    /\ argFileName # <<>>
    /\ ToLowerCase(ParseExt(argFileName)) = ExtDocx
    /\ LET baseName == ParseName(argFileName)
           inp == Resolve(DataDir, baseName \o ExtDocx)
           out == Resolve(DataDir, baseName \o ExtHtml)
       IN  /\ inputPath' = inp
           /\ IF inp \notin DOMAIN files
              THEN /\ exitCode' = 1
                   /\ files' = files
              ELSE /\ exitCode' = 0
                   /\ files' = WriteFile(files, out,
                                   Utf8Encode(FullHtml(baseName, Mammoth(files[inp]))))
    /\ runs' = runs + 1
    /\ prev' = files
    /\ mode' = "wordToHtml"
    /\ fix' = NoFix
    /\ md' = NoMd
    /\ UNCHANGED argFileName

\* ext === ".html" || ext === ".htm": htmlToPdf(baseName, dataDir, dataDir),
\* which runs fixHtmlEncodingIfNeeded(inputPath) and then prints the file
MainHtml ==
    /\ runs < MaxRuns
    /\ argFileName # <<>>
    /\ ToLowerCase(ParseExt(argFileName)) \in {ExtHtml, ExtHtm}
    /\ LET baseName == ParseName(argFileName)
           inp == Resolve(DataDir, baseName \o ExtHtml)
           out == Resolve(DataDir, baseName \o ExtPdf)
       IN  /\ inputPath' = inp
           /\ IF inp \notin DOMAIN files
              THEN /\ exitCode' = 1
                   /\ fix' = NoFix
                   /\ files' = files
              ELSE \E detected \in DetectLabels :
                      LET r == fixHtmlEncodingIfNeeded(files[inp], "", detected)
                          html == Utf8Decode(r.stored)
                      IN  /\ exitCode' = 0
                          /\ fix' = r
                          /\ files' = WriteFile(WriteFile(files, inp, r.stored),
                                          out, PagePdf(html))
    /\ runs' = runs + 1
    /\ prev' = files
    /\ mode' = "htmlToPdf"
    /\ md' = NoMd
    /\ UNCHANGED argFileName

\* any other extension: error message and process.exit(1)
MainUnsupported ==
    /\ runs < MaxRuns
    /\ argFileName # <<>>
    /\ ToLowerCase(ParseExt(argFileName)) \notin {ExtMd, ExtDocx, ExtHtml, ExtHtm}
    /\ runs' = runs + 1
    /\ prev' = files
    /\ exitCode' = 1
    /\ mode' = "none"
    /\ inputPath' = <<>>
    /\ fix' = NoFix
    /\ md' = NoMd
    /\ UNCHANGED <<argFileName, files>>

(***************************************************************************)
(* The HTML files the normalizer is run on.                                *)
(***************************************************************************)
Hi ==
    <<"H", "i">>

MetaUtf8 ==
    CanonicalMeta

MetaUtf8Upper ==
    <<"<", "M", "E", "T", "A", " ", "C", "H", "A", "R", "S", "E", "T", "=", "u", "t", "f", "-", "8", ">">>

MetaSjis ==
    <<"<", "m", "e", "t", "a", " ", "c", "h", "a", "r", "s", "e", "t", "=", "\"", "S", "h", "i", "f", "t", "_", "J", "I", "S", "\"", ">">>

\* a declaration tag with a second attribute whose quoted value holds "</body>"
MetaQuoted ==
    <<"<", "m", "e", "t", "a", " ", "c", "h", "a", "r", "s", "e", "t", "=", "\"", "x", "\"", " ", "a", "=", "\"", "<", "/", "b", "o", "d", "y", ">", "\"", ">">>

HeadTag ==
    <<"<", "h", "e", "a", "d", ">">>

HeaderTag ==
    <<"<", "h", "e", "a", "d", "e", "r", ">">>

\* what precedes the markup: nothing, an ESC and a "(B" that are not adjacent,
\* the escape sequence ESC ( B, or U+3042 in ISO-2022-JP
SlotEsc ==
    {<<>>, <<ESC>> \o Hi \o <<"(", "B">>, <<ESC, "(", "B">>,
     <<ESC, "$", "B">> \o JisA \o <<ESC, "(", "B">>}

SlotHead ==
    {<<>>, HeadTag, HeaderTag}

\* zero, one or two declaration tags
SlotMeta ==
    {<<>>, MetaUtf8, MetaSjis, MetaUtf8Upper, MetaQuoted,
     MetaSjis \o MetaUtf8, MetaUtf8 \o MetaSjis}

\* the text: ASCII, or U+3042 in UTF-8 or in Shift_JIS
SlotText ==
    {Hi, Utf8Bytes[Hiragana], SjisA}

SlotClose ==
    {<<>>, CloseBody, CloseHtml, CloseBody \o CloseHtml,
     <<"<", "/", "B", "O", "D", "Y", ">", "<", "/", "H", "T", "M", "L", ">">>,
     CloseBody \o CloseBody \o CloseHtml}

HtmlInputs ==
    {e \o h \o m \o t \o c :
        e \in SlotEsc, h \in SlotHead, m \in SlotMeta, t \in SlotText, c \in SlotClose}

PageArg ==
    <<"p", "a", "g", "e">> \o ExtHtml

PagePath ==
    Resolve(DataDir, PageArg)

Init ==
    /\ argFileName = PageArg
    /\ \E input \in HtmlInputs : files = (PagePath :> input)
    /\ prev = files
    /\ runs = 0
    /\ exitCode = 0
    /\ mode = "none"
    /\ inputPath = <<>>
    /\ fix = NoFix
    /\ md = NoMd

Next ==
    MainHtml

Spec ==
    Init /\ [][Next]_vars

(***************************************************************************)
(* The Markdown files mdToHtml is run on.                                  *)
(***************************************************************************)
\* the longest Markdown file, in lines
MaxMdLines ==
    4

\* two text lines (one indented), a "---" line, a heading with a repeated
\* marker and a Marp directive
MdLines ==
    {<<"a", "\n">>, <<" ", "b", "\n">>, <<"-", "-", "-", "\n">>,
     <<"#", "#", " ", "#", "#", "#", " ", "a", "\n">>,
     <<"m", "a", "r", "p", ":", " ", "t", "r", "u", "e", "\n">>}

RECURSIVE MdTexts(_)
MdTexts(n) ==
    IF n = 0 THEN {<<>>}
    ELSE LET Shorter == MdTexts(n - 1)
         IN  Shorter \cup {l \o t : l \in MdLines, t \in Shorter}

DocArg ==
    <<"d", "o", "c">> \o ExtMd

DocPath ==
    Resolve(DataDir, DocArg)

InitMd ==
    /\ argFileName = DocArg
    /\ \E text \in MdTexts(MaxMdLines) : files = (DocPath :> Utf8Encode(text))
    /\ prev = files
    /\ runs = 0
    /\ exitCode = 0
    /\ mode = "none"
    /\ inputPath = <<>>
    /\ fix = NoFix
    /\ md = NoMd

NextMd ==
    MainMd

SpecMd ==
    InitMd /\ [][NextMd]_vars

(***************************************************************************)
(* The command lines run.js is started with, over a fixed data directory.  *)
(***************************************************************************)
ArgDirs ==
    {<<>>, <<"s", "u", "b", "/">>}

ArgNames ==
    {<<"a">>, <<"b">>, <<"c">>, <<"a", ".", "b">>}

ArgExts ==
    {<<>>, ExtMd, <<".", "M", "D">>, ExtDocx, ExtHtml, ExtHtm, <<".", "t", "x", "t">>}

\* no argument at all, or a file name
Args ==
    {<<>>} \cup {d \o n \o e : d \in ArgDirs, n \in ArgNames, e \in ArgExts}

\* data/ holds a.* and b.* in every supported format
DataFiles ==
    LET Content(e) ==
            CASE e = ExtMd -> <<"#", " ", "#", " ", "a", "\n">>
              [] e = ExtDocx -> <<"d", "o", "c", "x">>
              [] e = ExtHtml -> HeadTag \o Hi
              [] OTHER -> HeadTag \o SjisA
        Names == {<<"a">>, <<"b">>}
        Exts == {ExtMd, ExtDocx, ExtHtml, ExtHtm}
        Paths == {Resolve(DataDir, n \o e) : n \in Names, e \in Exts}
    IN  [q \in Paths |-> Content(ParseExt(q))]

InitRun ==
    /\ argFileName \in Args
    /\ files = DataFiles
    /\ prev = files
    /\ runs = 0
    /\ exitCode = 0
    /\ mode = "none"
    /\ inputPath = <<>>
    /\ fix = NoFix
    /\ md = NoMd

NextRun ==
    \/ MainNoArg
    \/ MainMd
    \/ MainDocx
    \/ MainHtml
    \/ MainUnsupported

SpecRun ==
    InitRun /\ [][NextRun]_vars

(***************************************************************************)
(* Properties of the normalizer (specification Spec).                      *)
(***************************************************************************)
\* the bytes of the page before and after the last run
Before ==
    prev[PagePath]

After ==
    files[PagePath]

\* well-formed UTF-8: every byte >= 0x80 belongs to a complete multi-byte
\* sequence of a character
RECURSIVE WellFormedFrom(_, _)
WellFormedFrom(bytes, i) ==
    LET N == {k \in i..Len(bytes) : bytes[k] \in HighBytes}
    IN  IF N = {} THEN TRUE
        ELSE LET j == Min(N)
             IN  /\ \E ch \in WideChars : MatchAt(bytes, j, Utf8Bytes[ch])
                 /\ WellFormedFrom(bytes, j + 3)

ValidUtf8(bytes) ==
    WellFormedFrom(bytes, 1)

\* decoding as UTF-8 yields no U+FFFD
NoReplacement(bytes) ==
    LET t == Utf8Decode(bytes)
    IN  \A i \in 1..Len(t) : t[i] # Replacement

\* ESC immediately followed by "$B" or "(B"
HasJisEscape(bytes) ==
    \E i \in 1..Len(bytes) :
        /\ bytes[i] = ESC
        /\ (MatchAt(bytes, i + 1, <<"$", "B">>) \/ MatchAt(bytes, i + 1, <<"(", "B">>))

\* the declaration tags of a text, left to right without overlap (the
\* matches of /<meta[^>]*charset[^>]*>/gi)
RECURSIVE DeclStartsFrom(_, _)
DeclStartsFrom(s, i) ==
    LET M == {k \in MetaStarts(s) : k >= i}
    IN  IF M = {} THEN {}
        ELSE {Min(M)} \cup DeclStartsFrom(s, MetaEndAt(s, Min(M)) + 1)

DeclStarts(s) ==
    DeclStartsFrom(s, 1)

\* the declaration tag step 4 replaces, <<>> when it replaces none
ReplacedTag(decoded) ==
    IF hasMeta(decoded) /\ ~isUtf8Meta(decoded)
    THEN SubSeq(decoded, Min(MetaStarts(decoded)),
                MetaEndAt(decoded, Min(MetaStarts(decoded))))
    ELSE <<>>

AtLeastOne(n) ==
    IF n < 1 THEN 1 ELSE n

\* opening tags of an element whose name is exactly "head"
RealHeadStarts(s) ==
    {i \in HeadStarts(s) : s[i + 5] \in {">", "/"} \cup Ws}

\* a label the detector gives to these bytes: 'ASCII' is given to 7-bit
\* content only
LabelFits(bytes, label) ==
    label = "ASCII" => \A i \in 1..Len(bytes) : bytes[i] \notin HighBytes \cup {ESC}

\* C1: running the normalizer again on what the first run left yields
\* needFix = false and leaves the stored content byte-identical, for the
\* labels UTF8, ASCII (on 7-bit content) and unknown
C1_Idempotent ==
    (runs >= 2 /\ fix.called /\ fix.detected \in {"UTF8", "ASCII", ""}
       /\ LabelFits(Before, fix.detected))
        => (~fix.needFix /\ After = Before)

\* C2: after normalize the stored content is valid UTF-8 and decodes without
\* a replacement character, for every input
C2_Utf8Always ==
    fix.called => (ValidUtf8(After) /\ NoReplacement(After))

\* C2 (amended): the stored content is well-formed UTF-8 whenever normalize
\* rewrote the file or the input bytes were already valid UTF-8, and decodes
\* without a replacement character whenever the input bytes were valid UTF-8
\* free of U+FFFD and were read as UTF-8 (label UTF8 or unknown)
C2_Utf8WhenRewrittenOrValid ==
    fix.called =>
        /\ (fix.needFix \/ ValidUtf8(Before)) => ValidUtf8(After)
        /\ (ValidUtf8(Before) /\ NoReplacement(Before) /\ fix.enc \in {"", "UTF8"})
              => NoReplacement(After)

\* a Shift_JIS file that is not valid UTF-8 has been rewritten as UTF-8
C2_Witness ==
    /\ fix.called /\ fix.needFix /\ fix.enc = "SJIS"
    /\ ~ValidUtf8(Before)
    /\ ValidUtf8(After) /\ NoReplacement(After)
    /\ \E i \in 1..Len(fix.content) : fix.content[i] = Hiragana

\* C3: after normalize the stored content has exactly one charset
\* declaration tag, and it declares UTF-8
C3_SingleUtf8Declaration ==
    fix.called =>
        LET t == Utf8Decode(After)
        IN  /\ Cardinality(DeclStarts(t)) = 1
            /\ \A i \in DeclStarts(t) : Utf8MetaAt(t, i)

\* C4: after normalize the number of </body> (of </html>) is max(1, the
\* number in the decoded input)
C4_ClosersPreserved ==
    fix.called =>
        /\ CountCI(fix.content, CloseBody) = AtLeastOne(CountCI(fix.decoded, CloseBody))
        /\ CountCI(fix.content, CloseHtml) = AtLeastOne(CountCI(fix.decoded, CloseHtml))

\* C4 (amended): after normalize the number of </body> (of </html>) is
\* max(1, the number in the decoded input outside the declaration tag that
\* step 4 replaces)
C4_ClosersPreservedOutsideReplacedTag ==
    fix.called =>
        LET tag == ReplacedTag(fix.decoded)
        IN  /\ CountCI(fix.content, CloseBody) =
                 AtLeastOne(CountCI(fix.decoded, CloseBody) - CountCI(tag, CloseBody))
            /\ CountCI(fix.content, CloseHtml) =
                 AtLeastOne(CountCI(fix.decoded, CloseHtml) - CountCI(tag, CloseHtml))

\* a missing </body> has been appended once and the </html> of the input kept
C4_Witness ==
    /\ fix.called
    /\ CountCI(fix.decoded, CloseBody) = 0
    /\ CountCI(fix.content, CloseBody) = 1
    /\ CountCI(fix.decoded, CloseHtml) = 1
    /\ CountCI(fix.content, CloseHtml) = 1

\* C5: a file whose bytes contain ESC followed by "$B" or "(B" is classified
\* as ISO-2022-JP and transcoded from it, whatever the detector answered
C5_EscapePrecedence ==
    (fix.called /\ HasJisEscape(Before)) =>
        /\ fix.enc = "ISO-2022-JP"
        /\ fix.needFix
        /\ fix.decoded = Convert(Before, "ISO-2022-JP")

\* the detector answered SJIS for a file holding ESC ( B
C5_Witness ==
    /\ fix.called
    /\ HasJisEscape(Before)
    /\ ~Includes(Before, <<"$", "B">>)
    /\ fix.detected = "SJIS"
    /\ fix.enc = "ISO-2022-JP"

\* C6: a file that is already UTF-8 (valid UTF-8 bytes without a JIS escape
\* sequence, detected as UTF8), declares UTF-8 and has both closing markers
\* is left untouched: needFix = false and the bytes are unchanged
C6_CompliantUntouched ==
    (/\ fix.called
     /\ fix.detected = "UTF8"
     /\ ValidUtf8(Before)
     /\ ~HasJisEscape(Before)
     /\ LET t == Utf8Decode(Before)
        IN  /\ \E i \in MetaStarts(t) : Utf8MetaAt(t, i)
            /\ hasCloseBody(t)
            /\ hasCloseHtml(t))
    => (~fix.needFix /\ After = Before)

\* C9: when the decoded text has no declaration tag, the declaration is
\* inserted right after the opening tag of the head element if there is one,
\* else a minimal head section is prepended; needFix = true in both cases
C9_DeclarationPlacement ==
    (fix.called /\ ~hasMeta(fix.decoded)) =>
        /\ fix.needFix
        /\ fix.repaired =
             IF RealHeadStarts(fix.decoded) # {}
             THEN LET g == FirstGt(fix.decoded, Min(RealHeadStarts(fix.decoded)) + 5)
                  IN  Splice(fix.decoded, g + 1, g, HeadInsert)
             ELSE MinimalHead \o fix.decoded

\* C10: the classification is overridden to ISO-2022-JP only if the bytes
\* contain ESC immediately followed by "$B" or "(B"
C10_OverrideOnlyOnEscape ==
    (fix.called /\ fix.enc = "ISO-2022-JP") => HasJisEscape(Before)

(***************************************************************************)
(* Properties of run.js (SpecRun) and of preprocessMarkdown (SpecMd).      *)
(***************************************************************************)
\* the converter the README's table gives for an argument
ModeOf(arg) ==
    LET ext == ToLowerCase(ParseExt(arg))
    IN  CASE arg = <<>> -> "none"
          [] ext = ExtMd -> "mdToHtml"
          [] ext = ExtDocx -> "wordToHtml"
          [] ext = ExtHtml -> "htmlToPdf"
          [] OTHER -> "none"

\* the file of the data directory an argument names: its base name with its
\* extension (whose case is not significant)
NamedFile(arg) ==
    Resolve(DataDir, ParseName(arg) \o ToLowerCase(ParseExt(arg)))

\* C7: the conversion is chosen by the extension of the argument (.md,
\* .docx, .html, anything else is an error exit without conversion) and the
\* converter reads exactly the file the argument names
C7_SingleFileDispatch ==
    runs >= 1 =>
        /\ mode = ModeOf(argFileName)
        /\ mode = "none" => (exitCode = 1 /\ files = prev)
        /\ mode # "none" => inputPath = NamedFile(argFileName)

\* C8: a text that does not begin with "---" loses no front-matter block:
\* only the directive removal, the heading collapse and the leading trim
\* apply to it
C8_OnlyLeadingFrontMatter ==
    (md.called /\ ~MatchAt(md.src, 1, Dashes)) =>
        md.out = TrimStart(CollapseHeadings(RemoveMarp(md.src)))

====
